---- MODULE Spec2Model ----
(***************************************************************************)
(* Model of vortaro/views.py: the request handlers index, view_word and    *)
(* search_word, the resolvers precise_word_search / imprecise_word_search, *)
(* translation_search and group_translations.                              *)
(*                                                                         *)
(* Strings are sequences of one-character strings.  The store (models.py)  *)
(* is a set of tables; a query returns the matching rows in table order.   *)
(* get_spelling_variations, parse_morphology and compare_esperanto_strings *)
(* live outside views.py: the first two are opaque and are modelled as a   *)
(* choice among small lists, the third is modelled from its contract.      *)
(***************************************************************************)
EXTENDS Integers, Sequences, FiniteSets

VARIABLES variants, pc, req, resp, loc, missed, hops, translations, grouped

vars == <<variants, pc, req, resp, loc, missed, hops, translations, grouped>>

----------------------------------------------------------------------------
(* Bounds of the model and constants of the program *)

\* search_word: "if len(search_term) > 40"
MaxTermLen == 40

\* imprecise_word_search: "if len(spelling_variations) > 999"
SqliteLimit == 999

\* search_word: "potential_parses[:2]"
TopParses == 2

\* longest free part of a raw request string
MaxTail == 2

\* length of the run of letters put before the free part of a long string
PadLen == 39

\* rows in the Variant table
MaxVariants == 2

\* strings returned by the spelling-variation generator
MaxVariations == 1

\* records handed to group_translations
MaxTrans == 4

\* redirects followed for one request before the client gives up
MaxHops == 6

----------------------------------------------------------------------------
(* Strings *)

Chars == {"a", "A", "-", "'", " "}

\* a parameter the request does not carry
Absent == <<"absent">>

RECURSIVE SeqsUpTo(_, _)
SeqsUpTo(S, n) ==
    IF n = 0 THEN {<<>>}
    ELSE LET shorter == SeqsUpTo(S, n - 1)
         IN  shorter \cup {Append(s, c) : s \in {t \in shorter : Len(t) = n - 1}, c \in S}

Pad(n) == [i \in 1..n |-> "a"]

RawTerms == {p \o t : p \in {<<>>, Pad(PadLen)}, t \in SeqsUpTo(Chars, MaxTail)}

endswith(s, c) == Len(s) > 0 /\ s[Len(s)] = c

startswith(s, c) == Len(s) > 0 /\ s[1] = c

\* s[:-1]
DropLast(s) == SubSeq(s, 1, Len(s) - 1)

\* s[:n]
Take(s, n) == IF Len(s) > n THEN SubSeq(s, 1, n) ELSE s

RECURSIVE lstrip(_)
lstrip(s) == IF startswith(s, " ") THEN lstrip(Tail(s)) ELSE s

RECURSIVE rstrip(_)
rstrip(s) == IF endswith(s, " ") THEN rstrip(DropLast(s)) ELSE s

strip(s) == rstrip(lstrip(s))

IsHyphen(c) == c = "-"

NotHyphen(c) == ~IsHyphen(c)

\* s.replace('-', '')
remove_hyphens(s) == SelectSeq(s, NotHyphen)

lower_char(c) == IF c = "A" THEN "a" ELSE c

lower(s) == [i \in 1..Len(s) |-> lower_char(s[i])]

\* the substitution of a trailing ' by o
elide(s) == IF endswith(s, "'") THEN Append(DropLast(s), "o") ELSE s

clean_search_term(search_term) == lower(remove_hyphens(elide(search_term)))

----------------------------------------------------------------------------
(* esperanto_sort.compare_esperanto_strings: a three-way comparison that   *)
(* is a total order of the strings, by alphabet position and not by code   *)
(* point; a proper prefix sorts first.                                     *)

Alphabet == <<"a", "o", "A", "'", "-", " ">>

AlphabetIndex(c) == CHOOSE i \in 1..Len(Alphabet) : Alphabet[i] = c

RECURSIVE compare_esperanto_strings(_, _)
compare_esperanto_strings(x, y) ==
    IF x = <<>> /\ y = <<>> THEN 0
    ELSE IF x = <<>> THEN -1
    ELSE IF y = <<>> THEN 1
    ELSE IF AlphabetIndex(Head(x)) < AlphabetIndex(Head(y)) THEN -1
    ELSE IF AlphabetIndex(Head(x)) > AlphabetIndex(Head(y)) THEN 1
    ELSE compare_esperanto_strings(Tail(x), Tail(y))

\* list.sort(cmp=compare_esperanto_strings) of s, keys[i] the string that s[i] is
\* compared by: the sort is stable, so the item at place i goes behind every
\* item that compares lower and every earlier item that compares equal
sort(s, keys) ==
    LET before(i) == {j \in 1..Len(s) :
                        \/ compare_esperanto_strings(keys[j], keys[i]) < 0
                        \/ /\ compare_esperanto_strings(keys[j], keys[i]) = 0
                           /\ j < i}
    IN  [p \in 1..Len(s) |-> s[CHOOSE i \in 1..Len(s) : Cardinality(before(i)) = p - 1]]

----------------------------------------------------------------------------
(* The store (models.py).  Word, PrimaryDefinition, Subdefinition and      *)
(* Translation are fixed tables; the Variant table is chosen by Init.      *)

\* Word: the headword string of each Word, by primary key
WordTable == << <<"a">>, <<"A">> >>

WordIds == DOMAIN WordTable

\* PrimaryDefinition
DefinitionTable == << [id |-> 1, word |-> 1], [id |-> 2, word |-> 1], [id |-> 3, word |-> 2] >>

\* Subdefinition
SubdefinitionTable == << [id |-> 4, root_definition |-> 1], [id |-> 5, root_definition |-> 3] >>

\* Translation
TranslationTable ==
    << [id |-> 1, definition |-> 1, language |-> <<"o">>, translation |-> <<"A">>],
       [id |-> 2, definition |-> 1, language |-> <<"a">>, translation |-> <<"a">>],
       [id |-> 3, definition |-> 4, language |-> <<"o">>, translation |-> <<"a">>],
       [id |-> 4, definition |-> 1, language |-> <<"o">>, translation |-> <<"a", "-">>],
       [id |-> 5, definition |-> 2, language |-> <<"A">>, translation |-> <<"a", "'">>] >>

\* surface forms a Variant row may hold
Surfaces == {<<>>, <<"a">>, <<"o">>, Pad(MaxTermLen)}

\* the rows a Variant table may hold: every surface form is lower case
VariantRows ==
    {[variant |-> <<"a">>, word |-> 1], [variant |-> <<"a">>, word |-> 2],
     [variant |-> Pad(MaxTermLen), word |-> 1]}

\* more rows for the resolvers on their own, one with the empty string
ResolverRows ==
    VariantRows \cup {[variant |-> <<"o">>, word |-> 2], [variant |-> <<>>, word |-> 1]}

\* QuerySet.filter is SelectSeq: the rows of a table that satisfy a test, in
\* table order

Range(s) == {s[i] : i \in 1..Len(s)}

\* "lambda x, y: compare_esperanto_strings(x.word, y.word)": the strings the
\* words of a list are compared by
word_keys(words) == [i \in 1..Len(words) |-> WordTable[words[i]]]

----------------------------------------------------------------------------
(* The resolvers *)

\* the loop "if not variant.word in words: words.append(variant.word)"
RECURSIVE corresponding_words(_, _)
corresponding_words(matching_variants, words) ==
    IF matching_variants = <<>> THEN words
    ELSE LET variant == Head(matching_variants)
         IN  corresponding_words(Tail(matching_variants),
                                 IF variant.word \in Range(words) THEN words
                                 ELSE Append(words, variant.word))

\* the exact lookup as a prefix match, variant__startswith
precise_word_search_prefix(table, word) ==
    LET matching_variants ==
            SelectSeq(table, LAMBDA v : Len(v.variant) >= Len(word)
                                      /\ SubSeq(v.variant, 1, Len(word)) = word)
    IN  sort(corresponding_words(matching_variants, <<>>),
             word_keys(corresponding_words(matching_variants, <<>>)))

precise_word_search(table, word) ==
    LET matching_variants == SelectSeq(table, LAMBDA v : v.variant = word)
    IN  sort(corresponding_words(matching_variants, <<>>),
             word_keys(corresponding_words(matching_variants, <<>>)))

imprecise_word_search(table, spelling_variations) ==
    LET limited == IF Len(spelling_variations) > SqliteLimit
                   THEN SubSeq(spelling_variations, 1, SqliteLimit)
                   ELSE spelling_variations
        matching_variants == SelectSeq(table, LAMBDA v : v.variant \in Range(limited))
    IN  sort(corresponding_words(matching_variants, <<>>),
             word_keys(corresponding_words(matching_variants, <<>>)))

----------------------------------------------------------------------------
(* Translations *)

\* "key=(lambda t: t.language)"
language_keys(list) == [i \in 1..Len(list) |-> list[i].language]

\* the loop over translations[1:] that opens a group when the language changes
RECURSIVE group_runs(_, _)
group_runs(grouped_translations, rest) ==
    IF rest = <<>> THEN grouped_translations
    ELSE LET translation == Head(rest)
             n == Len(grouped_translations)
             last == grouped_translations[n]
         IN  group_runs(IF translation.language = last[Len(last)].language
                         THEN [grouped_translations EXCEPT ![n] = Append(last, translation)]
                         ELSE Append(grouped_translations, <<translation>>),
                        Tail(rest))

\* the list left in the order it came in
unsorted_translations(list) == list

\* the list after translations.sort(...): group_translations sorts its argument in place
sorted_translations(list) == sort(list, language_keys(list))

\* the grouping with the loop started one element late, at translations[2:]
group_translations_skip(list) ==
    IF list = <<>> THEN <<>>
    ELSE LET sorted == sort(list, language_keys(list))
         IN  group_runs(<< <<Head(sorted)>> >>, SubSeq(sorted, 3, Len(sorted)))

group_translations(list) ==
    IF list = <<>> THEN <<>>
    ELSE LET sorted == sorted_translations(list)
         IN  group_runs(<< <<Head(sorted)>> >>, Tail(sorted))

translation_search(search_term) ==
    group_translations(SelectSeq(TranslationTable, LAMBDA t : t.translation = search_term))

----------------------------------------------------------------------------
(* search_word, the computation between its query and its store lookups *)

\* "if len(search_term) > 40: search_term = search_term[:40]"
truncate(search_term) == Take(search_term, MaxTermLen)

\* the value of word without the second substitution of a trailing '
lookup_word_no_elision(search_term) ==
    LET stripped == remove_hyphens(search_term)
        word == IF startswith(search_term, "-") THEN <<"-">> \o stripped ELSE stripped
    IN  lower(word)

\* the value of word at the lookups, from the truncated search_term
lookup_word(search_term) ==
    LET elided == elide(search_term)
        stripped == remove_hyphens(elided)
        word == IF startswith(search_term, "-") THEN <<"-">> \o stripped ELSE stripped
    IN  lower(word)

\* the word search_word looks up for a trimmed query
LookupKey(query) == lookup_word(truncate(clean_search_term(query)))

\* the 'rekte' lookup made with the truncated lookup key of the full search
direct_matches_truncated(table, query) == precise_word_search(table, LookupKey(query))

\* the matches of the 'rekte' lookup, made with clean_search_term(query) before
\* the truncation
direct_matches(table, query) == precise_word_search(table, clean_search_term(query))

\* the similar words without the exclusion of the exact matches
similar_words_unfiltered(imprecise, matching_words) == imprecise

\* "[term for term in imprecise_word_search(word) if term not in matching_words]"
similar_words(imprecise, matching_words) ==
    SelectSeq(imprecise, LAMBDA term : term \notin Range(matching_words))

\* get_spelling_variations: some list of strings
VariationLists == SeqsUpTo(Surfaces, MaxVariations)

\* parse_morphology: some ranked list of parses, longer than search_word keeps
ParseLists == {<< <<"a">>, <<"a", "a">>, <<"a", "a", "a">> >>}

----------------------------------------------------------------------------
(* view_word, the assembly of its page *)

definitions_of(word_obj) == SelectSeq(DefinitionTable, LAMBDA d : d.word = word_obj)

subdefinitions_of(definition) ==
    SelectSeq(SubdefinitionTable, LAMBDA sd : sd.root_definition = definition.id)

translations_of(definition) ==
    group_translations(SelectSeq(TranslationTable, LAMBDA t : t.definition = definition.id))

\* (definition, subdefinitions) for every definition; examples and remarks are
\* read and passed on as they are
definition_trees(word_obj) ==
    LET definitions == definitions_of(word_obj)
        subdefinitions(d) == subdefinitions_of(d)
    IN  [i \in 1..Len(definitions) |->
            <<definitions[i].id,
              [j \in 1..Len(subdefinitions(definitions[i])) |->
                  subdefinitions(definitions[i])[j].id]>>]

\* the grouped translations of the subdefinitions of a definition that have any
subdefinitions_translations(definition) ==
    LET subdefinitions == subdefinitions_of(definition)
    IN  SelectSeq([j \in 1..Len(subdefinitions) |-> translations_of(subdefinitions[j])],
                  LAMBDA g : g # <<>>)

word_translations(word_obj) ==
    LET definitions == definitions_of(word_obj)
    IN  SelectSeq([i \in 1..Len(definitions) |->
                      <<translations_of(definitions[i]),
                        subdefinitions_translations(definitions[i])>>],
                  LAMBDA e : e[1] # <<>> \/ e[2] # <<>>)

\* Word.objects.get(word=word): the Words with that string
words_named(word) == {w \in WordIds : WordTable[w] = word}

\* the redirect sent back to the word lookup instead of the search
view_word_not_found_vorto(word) ==
    [path |-> "index", vorto |-> word, sercxo |-> Absent, s |-> Absent,
     rekte |-> FALSE, word |-> Absent]

\* view_word's answer when Word.DoesNotExist: HttpResponseRedirect('/?serĉo=' + word)
view_word_not_found(word) ==
    [path |-> "index", vorto |-> Absent, sercxo |-> word, s |-> Absent,
     rekte |-> FALSE, word |-> Absent]

----------------------------------------------------------------------------
(* Requests and responses *)

Request(path, vorto, sercxo, s, rekte, word) ==
    [path |-> path, vorto |-> vorto, sercxo |-> sercxo, s |-> s,
     rekte |-> rekte, word |-> word]

NoRequest == Request("none", Absent, Absent, Absent, FALSE, Absent)

NoResponse == [template |-> "none"]

NoLocals == [outcome |-> "none"]

Handlers == {"index", "view_word", "search_word"}

\* the requests a client may send with the strings of a set
RequestsWith(terms) ==
       {Request("index", Absent, Absent, Absent, FALSE, Absent)}
  \cup {Request("index", t, Absent, Absent, FALSE, Absent) : t \in terms}
  \cup {Request("index", Absent, t, Absent, FALSE, Absent) : t \in terms}
  \cup {Request("index", t, t, Absent, FALSE, Absent) : t \in terms}
  \cup {Request("view_word", Absent, Absent, Absent, FALSE, t) : t \in terms}
  \cup {Request("search_word", Absent, Absent, t, r, Absent) :
            t \in terms, r \in BOOLEAN}

ClientRequests == RequestsWith(RawTerms)

\* the requests whose strings are short
ShortRequests == RequestsWith(SeqsUpTo(Chars, MaxTail))

VariantTables == SeqsUpTo(VariantRows, MaxVariants)

Init ==
    /\ variants \in VariantTables
    /\ pc = "idle"
    /\ req = NoRequest
    /\ resp = NoResponse
    /\ loc = NoLocals
    /\ missed = FALSE
    /\ hops = 0
    /\ translations = <<>>
    /\ grouped = <<>>

\* a client sends request r
Send(r) ==
    /\ pc = "idle"
    /\ req' = r
    /\ pc' = r.path
    /\ resp' = NoResponse
    /\ loc' = NoLocals
    /\ missed' = FALSE
    /\ hops' = 0
    /\ UNCHANGED <<variants, translations, grouped>>

NewRequest == \E r \in ClientRequests : Send(r)

NewShortRequest == \E r \in ShortRequests : Send(r)

\* index, "if 'vorto' in request.GET"
IndexVorto ==
    /\ hops < MaxHops
    /\ pc = "index"
    /\ req.vorto # Absent
    /\ req' = Request("view_word", Absent, Absent, Absent, FALSE, strip(req.vorto))
    /\ pc' = "view_word"
    /\ hops' = hops + 1
    /\ UNCHANGED <<variants, resp, loc, missed, translations, grouped>>

\* index, "if u'serĉo' in request.GET"
IndexSercxo ==
    /\ hops < MaxHops
    /\ pc = "index"
    /\ req.vorto = Absent
    /\ req.sercxo # Absent
    /\ req' = Request("search_word", Absent, Absent, strip(req.sercxo), FALSE, Absent)
    /\ pc' = "search_word"
    /\ hops' = hops + 1
    /\ UNCHANGED <<variants, resp, loc, missed, translations, grouped>>

\* index, neither parameter
IndexRender ==
    /\ pc = "index"
    /\ req.vorto = Absent
    /\ req.sercxo = Absent
    /\ resp' = [template |-> "index.html"]
    /\ pc' = "page"
    /\ UNCHANGED <<hops, variants, req, loc, missed, translations, grouped>>

index == IndexVorto \/ IndexSercxo \/ IndexRender

\* view_word, the word exists
ViewWordFound ==
    /\ pc = "view_word"
    /\ \E word_obj \in words_named(req.word) :
          resp' = [template |-> "word.html", word |-> req.word,
                   definitions |-> definition_trees(word_obj),
                   translations |-> word_translations(word_obj)]
    /\ pc' = "page"
    /\ UNCHANGED <<hops, variants, req, loc, missed, translations, grouped>>

\* view_word, Word.DoesNotExist
ViewWordNotFound ==
    /\ hops < MaxHops
    /\ pc = "view_word"
    /\ words_named(req.word) = {}
    /\ req' = view_word_not_found(req.word)
    /\ pc' = view_word_not_found(req.word).path
    /\ missed' = TRUE
    /\ hops' = hops + 1
    /\ UNCHANGED <<variants, resp, loc, translations, grouped>>

view_word == ViewWordFound \/ ViewWordNotFound

\* search_word with 'rekte' and a match: redirect('view_word', matches[0].word)
SearchWordRedirect ==
    /\ hops < MaxHops
    /\ pc = "search_word"
    /\ req.rekte
    /\ LET query == strip(req.s)
           search_term == clean_search_term(query)
           matches == direct_matches(variants, query)
       IN  /\ matches # <<>>
           /\ req' = Request("view_word", Absent, Absent, Absent, FALSE,
                             WordTable[matches[1]])
           /\ loc' = [outcome |-> "redirect", rekte |-> req.rekte, query |-> query,
                      search_term |-> search_term, matches |-> matches]
    /\ pc' = "view_word"
    /\ hops' = hops + 1
    /\ UNCHANGED <<variants, resp, missed, translations, grouped>>

\* search_word otherwise: the full search
SearchWordRender ==
    /\ pc = "search_word"
    /\ LET query == strip(req.s)
           cleaned == clean_search_term(query)
           matches == IF req.rekte THEN direct_matches(variants, query) ELSE <<>>
           search_term == truncate(cleaned)
           word == lookup_word(search_term)
           matching_words == precise_word_search(variants, word)
           found_translations == translation_search(search_term)
       IN  /\ matches = <<>>
           /\ \E spelling_variations \in VariationLists, parses \in ParseLists :
                 resp' = [template |-> "search.html",
                          search_term |-> search_term,
                          matching_words |-> matching_words,
                          similar_words |->
                              similar_words(imprecise_word_search(variants, spelling_variations),
                                            matching_words),
                          potential_parses |-> Take(parses, TopParses),
                          translations |-> found_translations]
           /\ loc' = [outcome |-> "render", rekte |-> req.rekte, query |-> query,
                      search_term |-> search_term, matches |-> matches,
                      word |-> word]
    /\ pc' = "page"
    /\ UNCHANGED <<hops, variants, req, missed, translations, grouped>>

search_word == SearchWordRedirect \/ SearchWordRender

Next == NewRequest \/ index \/ view_word \/ search_word

Spec == Init /\ [][Next]_vars

\* the handlers under requests with short strings
NextShort == NewShortRequest \/ index \/ view_word \/ search_word

SpecShort == Init /\ [][NextShort]_vars


----------------------------------------------------------------------------
(* The resolvers on their own: a key search_word can compute, any list of  *)
(* spelling variations, any Variant table.                                 *)

ResolverTables == SeqsUpTo(ResolverRows, MaxVariants)

InitResolvers ==
    /\ variants \in ResolverTables
    /\ pc = "resolvers"
    /\ req = NoRequest
    /\ resp = NoResponse
    /\ loc = NoLocals
    /\ missed = FALSE
    /\ hops = 0
    /\ translations = <<>>
    /\ grouped = <<>>

\* lines 137-141 of search_word
Resolve ==
    /\ pc = "resolvers"
    /\ \E raw \in SeqsUpTo(Chars, MaxTail), spelling_variations \in VariationLists :
       LET word == LookupKey(strip(raw))
           matching_words == precise_word_search(variants, word)
           imprecise == imprecise_word_search(variants, spelling_variations)
       IN  loc' = [outcome |-> "resolved", word |-> word,
                   spelling_variations |-> spelling_variations,
                   matching_words |-> matching_words,
                   imprecise |-> imprecise,
                   similar_words |-> similar_words(imprecise, matching_words)]
    /\ pc' = "resolved"
    /\ UNCHANGED <<hops, variants, req, resp, missed, translations, grouped>>

NextResolvers == Resolve

SpecResolvers == InitResolvers /\ [][NextResolvers]_vars

----------------------------------------------------------------------------
(* group_translations on its own: any list of Translation records *)

Languages == {<<"a">>, <<"o">>, <<"a", "o">>}

TranslationLists ==
    UNION {{[i \in 1..n |-> [id |-> i, definition |-> 1, language |-> f[i],
                              translation |-> <<"a">>]] : f \in [1..n -> Languages]}
           : n \in 0..MaxTrans}

InitGroup ==
    /\ translations \in TranslationLists
    /\ grouped = <<>>
    /\ pc = "group_translations"
    /\ loc = [outcome |-> "none", input |-> translations]
    /\ variants = <<>>
    /\ req = NoRequest
    /\ resp = NoResponse
    /\ missed = FALSE
    /\ hops = 0

\* the call group_translations(translations): the list is sorted in place
GroupTranslations ==
    /\ pc = "group_translations"
    /\ grouped' = group_translations(translations)
    /\ translations' = IF translations = <<>> THEN translations
                       ELSE sorted_translations(translations)
    /\ pc' = "grouped"
    /\ UNCHANGED <<hops, variants, req, resp, loc, missed>>

NextGroup == GroupTranslations

SpecGroup == InitGroup /\ [][NextGroup]_vars

----------------------------------------------------------------------------
(* The claims *)

Hyphens(s) == {i \in 1..Len(s) : s[i] = "-"}

SearchPage == pc = "page" /\ resp.template = "search.html"

Flatten(groups) ==
    LET RECURSIVE flat(_)
        flat(g) == IF g = <<>> THEN <<>> ELSE Head(g) \o flat(Tail(g))
    IN  flat(groups)

Count(s, x) == Cardinality({i \in 1..Len(s) : s[i] = x})

NoDuplicates(s) == \A i, j \in 1..Len(s) : s[i] = s[j] => i = j

\* the headwords with a variant whose surface form is one of the set
HeadwordsOf(table, surfaces) ==
    {table[i].word : i \in {j \in 1..Len(table) : table[j].variant \in surfaces}}

(* C1: when the trimmed query begins with a hyphen, the key search_word looks
   up keeps exactly one hyphen, the leading one; when the query has hyphens
   but none leading, the key has no hyphen. *)
C1_LeadingHyphenKept ==
    SearchPage =>
        /\ startswith(loc.query, "-") => Hyphens(loc.word) = {1}
        /\ ~startswith(loc.query, "-") => Hyphens(loc.word) = {}

(* C2: the translations of a search page are those whose text equals the
   trimmed query as typed. *)
C2_TranslationsByRawTerm ==
    SearchPage => resp.translations = translation_search(loc.query)

(* C3 as stated: with 'rekte', search_word redirects exactly when the exact
   lookup of the truncated lookup key of the full search finds a headword. *)
C3_RedirectByLookupKey ==
    loc.outcome \in {"redirect", "render"} /\ loc.rekte =>
        (loc.outcome = "redirect"
            <=> HeadwordsOf(variants, {LookupKey(loc.query)}) # {})

(* C3 amended: with 'rekte', search_word redirects exactly when some variant
   equals clean_search_term of the trimmed query, which is not truncated; the
   target is then a headword of such a variant that no other one precedes in
   collation order; without 'rekte' or without such a variant the search
   page is rendered. *)
C3_RedirectByCleanTerm ==
    LET direct == HeadwordsOf(variants, {clean_search_term(loc.query)})
    IN  /\ loc.outcome \in {"redirect", "render"} =>
              (loc.outcome = "redirect" <=> (loc.rekte /\ direct # {}))
        /\ loc.outcome = "redirect" /\ pc = "view_word" =>
              \E w \in direct :
                 /\ req.word = WordTable[w]
                 /\ \A h \in direct :
                       compare_esperanto_strings(WordTable[w], WordTable[h]) <= 0
        /\ loc.outcome = "render" => SearchPage

\* a redirect chose between two headwords
C3_Witness ==
    /\ loc.outcome = "redirect"
    /\ pc = "view_word"
    /\ Len(loc.matches) = 2
    /\ loc.query # loc.search_term

(* C4: no headword occurs twice in the exact matches followed by the similar
   matches of a search page. *)
C4_NoHeadwordTwice ==
    SearchPage => NoDuplicates(resp.matching_words \o resp.similar_words)

\* a search page with an exact match and a similar word
C4_Witness ==
    /\ SearchPage
    /\ resp.matching_words # <<>>
    /\ resp.similar_words # <<>>

(* C5: the groups hold every record of the input exactly as often as the
   input does, no group is empty, the records of a group have one language,
   and the empty list gives no group. *)
C5_GroupsPartitionInput ==
    pc = "grouped" =>
        /\ Len(Flatten(grouped)) = Len(loc.input)
        /\ \A i \in 1..Len(loc.input) :
              Count(Flatten(grouped), loc.input[i]) = Count(loc.input, loc.input[i])
        /\ \A g \in 1..Len(grouped) :
              /\ grouped[g] # <<>>
              /\ \A i, j \in 1..Len(grouped[g]) :
                    grouped[g][i].language = grouped[g][j].language
        /\ loc.input = <<>> => grouped = <<>>

\* several groups, one of them of several records that were apart in the input
C5_Witness ==
    /\ pc = "grouped"
    /\ Len(grouped) >= 2
    /\ \E g \in 1..Len(grouped) : Len(grouped[g]) >= 2
    /\ translations # loc.input

(* C6: the languages of successive groups ascend strictly in collation order,
   so no two groups have the same language. *)
C6_GroupsAscend ==
    pc = "grouped" =>
        /\ \A g \in 1..(Len(grouped) - 1) :
              compare_esperanto_strings(grouped[g][1].language,
                                        grouped[g + 1][1].language) < 0
        /\ \A g, h \in 1..Len(grouped) :
              grouped[g][1].language = grouped[h][1].language => g = h

\* the input had a language in two places, with another between them
C6_Witness ==
    /\ pc = "grouped"
    /\ Len(grouped) >= 2
    /\ \E i, j, k \in 1..Len(loc.input) :
          /\ i < j
          /\ j < k
          /\ loc.input[i].language = loc.input[k].language
          /\ loc.input[i].language # loc.input[j].language

(* C7: the search term of a search page is the trimmed query cut to 40
   characters and otherwise as typed. *)
C7_DisplayTermAsTyped ==
    SearchPage => resp.search_term = truncate(loc.query)

(* C8: the lookup key is a fixed point of the normalization: computing the
   lookup key of the lookup key gives the lookup key again. *)
C8_LookupKeyIdempotent ==
    loc.outcome = "render" => LookupKey(loc.word) = loc.word

\* a query that the normalization changed: too long, with a hyphen and a
\* trailing apostrophe
C8_Witness ==
    /\ loc.outcome = "render"
    /\ Len(loc.query) > MaxTermLen
    /\ Hyphens(loc.query) # {}
    /\ endswith(loc.query, "'")

(* C9 as stated: with the empty lookup key both resolvers return the empty
   list, whatever the store and the generator hold. *)
C9_EmptyKeyFindsNothing ==
    pc = "resolved" /\ loc.word = <<>> =>
        loc.matching_words = <<>> /\ loc.imprecise = <<>>

(* C9 amended: with the empty lookup key the exact resolver returns exactly
   the headwords of the variants whose surface form is the empty string, and
   the approximate resolver exactly the headwords of the variants whose
   surface form is among the spelling variations; each without duplicates. *)
C9_EmptyKeyMatchesByEquality ==
    pc = "resolved" /\ loc.word = <<>> =>
        /\ Range(loc.matching_words) = HeadwordsOf(variants, {<<>>})
        /\ Range(loc.imprecise) = HeadwordsOf(variants, Range(loc.spelling_variations))
        /\ NoDuplicates(loc.matching_words)
        /\ NoDuplicates(loc.imprecise)

\* the empty key, a store with variants, none of them the empty string
C9_Witness ==
    /\ pc = "resolved"
    /\ loc.word = <<>>
    /\ variants # <<>>
    /\ loc.matching_words = <<>>

(* C10: a request is answered after at most three redirects: the redirects
   of one request never exceed three, a handler that is entered always has a
   response to give, and the page reached after view_word did not find its
   word is the search page. *)
C10_RedirectsEnd ==
    /\ hops <= 3
    /\ pc \in Handlers => ENABLED (index \/ view_word \/ search_word)
    /\ pc = "page" /\ missed => resp.template = "search.html"

\* the search page at the end of index, view_word, index, search_word
C10_Witness ==
    /\ SearchPage
    /\ missed
    /\ hops = 3

====
